---- MODULE Spec2Model ----
(***************************************************************************)
(* AI Room Designer: the generation batch of App.handleGenerate with the   *)
(* two Gemini operations it chains per room image (enhanceImage, then      *)
(* generateDecorIdeas), and the narration hook useAudioPlayer.             *)
(*                                                                         *)
(* JavaScript strings are sequences of tokens (the empty string is << >>). *)
(* A nullable or possibly-undefined value is a sequence of length <= 1:    *)
(* None is null/undefined, Some(x) is the value x.                         *)
(***************************************************************************)
EXTENDS Integers, Sequences, FiniteSets, Bags, TLC

None == << >>
Some(x) == << x >>

\* ---------------------------------------------------------------- bounds
\* Batches started (handleGenerate passing validation) in one behaviour.
MaxBatches == 1
\* speechSynthesis.speak calls in one behaviour.
MaxUtterances == 3
\* Result cards on screen, each with its own useAudioPlayer instance.
NumCards == 2
\* Decor images the list can hold in one behaviour.
MaxDecorImages == 4
\* createComparisonImage calls of one result card in one behaviour.
MaxCompositions == 2
\* Files one result card saves in one behaviour.
MaxDownloads == 2

\* ---------------------------------------------------------------- inputs
\* A File: its raw bytes, its mime type, and whether a FileReader can read it
\* (a file deleted or changed on disk after selection fails to read).
FileA == [name |-> "A", bytes |-> "rawA", type |-> "image/png", size |-> 1024, readable |-> TRUE]
FileB == [name |-> "B", bytes |-> "rawB", type |-> "image/jpeg", size |-> 2048, readable |-> TRUE]
FileU == [name |-> "U", bytes |-> "rawU", type |-> "image/png", size |-> 1024, readable |-> FALSE]
FileD == [name |-> "D", bytes |-> "rawD", type |-> "image/webp", size |-> 512, readable |-> TRUE]

\* Files offered to the decor file input: one of exactly the largest accepted
\* size, one a byte larger, and one of a type outside the accepted list.
FileMax == [name |-> "M", bytes |-> "rawM", type |-> "image/jpeg", size |-> 4194304, readable |-> TRUE]
FileBig == [name |-> "L", bytes |-> "rawL", type |-> "image/png", size |-> 4194305, readable |-> TRUE]
FileGif == [name |-> "G", bytes |-> "rawG", type |-> "image/gif", size |-> 512, readable |-> TRUE]
SelectableFiles == { FileA, FileB, FileD, FileMax, FileBig, FileGif }
\* event.target.files of a change event: nothing chosen, one file or two.
Selections ==
    { << >> } \cup { << f >> : f \in SelectableFiles }
              \cup { << f, g >> : f \in SelectableFiles, g \in SelectableFiles }

\* The room image lists the room image manager hands to setRoomImages.
RoomImageLists == { << >>, <<FileU>>, <<FileA, FileB>> }
\* The decor image lists the decor image manager hands to setDecorImages.
DecorImageLists == { << >>, <<FileD, FileU>> }
\* Texts typed into the style prompt textarea: empty, blanks only, and a
\* prompt with surrounding blanks.
StylePrompts == { << >>, <<" ", " ">>, <<" ", "cozy", " ">> }

\* ------------------------------------------------- Image Codec Helper
\* Base64 of a file's bytes, as FileReader.readAsDataURL produces it.
Base64(bytes) ==
    CASE bytes = "rawA" -> "QQ=="
      [] bytes = "rawB" -> "Qg=="
      [] bytes = "rawD" -> "RA=="
      [] bytes = "rawU" -> "VQ=="
      [] bytes = "rawM" -> "TQ=="
      [] bytes = "rawL" -> "TA=="
      [] bytes = "rawG" -> "Rw=="
      [] OTHER -> ""

\* reader.result at onloadend: the data URL, or null when the read failed.
ReaderResult(file) ==
    IF file.readable
    THEN Some(<<"data:", file.type, ";base64", ",", Base64(file.bytes)>>)
    ELSE None

\* String.prototype.split(sep) on a token string: the pieces between
\* separators, in order.
RECURSIVE Split(_, _)
Split(s, sep) ==
    IF \A k \in 1..Len(s) : s[k] # sep
    THEN << s >>
    ELSE LET k == CHOOSE j \in 1..Len(s) : s[j] = sep /\ \A m \in 1..(j - 1) : s[m] # sep
         IN  << SubSeq(s, 1, k - 1) >> \o Split(SubSeq(s, k + 1, Len(s)), sep)

\* How a promise settles: fulfilled with a value, or rejected with a thrown
\* value (an Error instance with a message, or something else).
Fulfilled(value) == [status |-> "fulfilled", value |-> Some(value), reason |-> None]
Rejected(message) ==
    [status |-> "rejected", value |-> None, reason |-> Some([isError |-> TRUE, message |-> message])]

\* fileToGenerativePart as it would be if a failed read rejected the promise.
fileToGenerativePartRejecting(file) ==
    LET result == ReaderResult(file)
    IN  IF result = None THEN Rejected(<<"The file could not be read.">>)
        ELSE Fulfilled([inlineData |-> Some([data |-> Split(result[1], ",")[2],
                                             mimeType |-> file.type]),
                        text |-> None])

\* fileToGenerativePart: its promise has no reject path; it resolves with
\* the base64 payload after the "," of the data URL, or with '' when
\* reader.result is no string.
fileToGenerativePart(file) ==
    LET result == ReaderResult(file)
    IN  Fulfilled([inlineData |-> Some([data |-> IF result # None
                                                 THEN Split(result[1], ",")[2]
                                                 ELSE << >>,
                                        mimeType |-> file.type]),
                   text |-> None])

\* The part a fulfilled fileToGenerativePart resolved with.
PartOf(file) == fileToGenerativePart(file).value[1]

TextPart(t) == [inlineData |-> None, text |-> Some(t)]

\* ------------------------------------------------- Generation Client
\* The external model service is a black box. A call either throws (an
\* Error instance or some other value) or returns a response with zero or
\* more candidates, the first of which may lack content (a blocked answer)
\* or hold parts in order. Image bytes the service returns are named by the
\* request they answer and by a variant.
EnhancePrompt == <<"enhance: upscale, sharpen, denoise; output only the image">>
DesignPrompt(stylePromptText) ==
    <<"design: keep the room's structure; style prompt: ">> \o stylePromptText \o <<"; output only the image">>

\* The payload of the first inline part of a request: the image it is about.
RequestImage(parts) ==
    LET k == CHOOSE j \in 1..Len(parts) :
                 parts[j].inlineData # None /\ \A m \in 1..(j - 1) : parts[m].inlineData = None
    IN  parts[k].inlineData[1].data

ReplyImagePart(parts, variant) ==
    [inlineData |-> Some([data |-> <<"reply", variant>> \o RequestImage(parts),
                          mimeType |-> "image/png"]),
     text |-> None]

\* An inline part whose data is empty.
EmptyInlinePart == [inlineData |-> Some([data |-> << >>, mimeType |-> "image/png"]), text |-> None]

Returned(candidates) == [threw |-> FALSE, thrown |-> None, candidates |-> candidates]
Threw(isError, message) ==
    [threw |-> TRUE, thrown |-> Some([isError |-> isError, message |-> message]), candidates |-> None]
WithParts(parts) == Some(<< [content |-> Some([parts |-> parts])] >>)

\* Every way a generateContent call on the given request parts can settle.
CallOutcomes(parts) ==
    { Threw(TRUE, <<"503 service unavailable">>),
      Threw(FALSE, <<"aborted">>),
      Returned(None),
      Returned(Some(<< [content |-> None] >>)),
      Returned(WithParts(<< TextPart(<<"Here you go">>) >>)),
      Returned(WithParts(<< TextPart(<<"Here you go">>), ReplyImagePart(parts, "1") >>)),
      Returned(WithParts(<< ReplyImagePart(parts, "1"), ReplyImagePart(parts, "2") >>)),
      Returned(WithParts(<< EmptyInlinePart, ReplyImagePart(parts, "1") >>)) }

\* The parts of the enhancement request (contents.parts, line 52).
EnhanceRequest(imageFile) ==
    << PartOf(imageFile), TextPart(EnhancePrompt) >>

\* The parts of the design request (contents.parts, lines 106-114).
DesignRequest(roomImage, decorImages, stylePromptText) ==
    << TextPart(<<"Here is the image of the room:">>), PartOf(roomImage),
       TextPart(<<"Here are the decor items to incorporate:">>) >>
    \o [k \in 1..Len(decorImages) |-> PartOf(decorImages[k])]
    \o << TextPart(DesignPrompt(stylePromptText)) >>

\* response.candidates?.[0]?.content?.parts, or None where the optional
\* chain yields undefined.
FirstCandidateParts(outcome) ==
    IF outcome.candidates = None \/ outcome.candidates[1] = << >> THEN None
    ELSE IF outcome.candidates[1][1].content = None THEN None
    ELSE Some(outcome.candidates[1][1].content[1].parts)

\* Array.prototype.find(part => part.inlineData?.data): the first part whose
\* inline data is a non-empty string, or None.
FindImagePart(parts) ==
    LET hits == { j \in 1..Len(parts) :
                      parts[j].inlineData # None /\ parts[j].inlineData[1].data # << >> }
    IN  IF hits = {} THEN None
        ELSE Some(parts[CHOOSE j \in hits : \A m \in hits : j <= m])

\* The try block of enhanceImage: Some(data) when it returns, None when it
\* throws into the catch (the call threw, or no image part was found).
EnhanceResponseImage(outcome) ==
    IF outcome.threw THEN None
    ELSE LET ps == FirstCandidateParts(outcome)
         IN  IF ps = None THEN None
             ELSE IF FindImagePart(ps[1]) = None THEN None
             ELSE Some(FindImagePart(ps[1])[1].inlineData[1].data)

\* enhanceImage, given how its generateContent call settled: the response's
\* first image, or in the catch block the re-encoded original file (an
\* error of that second read would leave the catch block).
enhanceImage(imageFile, outcome) ==
    IF EnhanceResponseImage(outcome) # None
    THEN Fulfilled(EnhanceResponseImage(outcome)[1])
    ELSE LET originalImagePart == fileToGenerativePart(imageFile)
         IN  IF originalImagePart.status = "rejected" THEN originalImagePart
             ELSE Fulfilled(originalImagePart.value[1].inlineData[1].data)

NoImageMessage == <<"The model did not return an image. Please try refining your prompt.">>
FailedPrefix == <<"Failed to generate design: ">>
UnknownDesignMessage == <<"An unknown error occurred while generating the design.">>
TypeErrorMessage == <<"Cannot read properties of undefined (reading 'parts')">>

\* The loop of lines 128-137: the data of the first part that has inlineData
\* ('' when there is no candidate or no such part).
FirstInlineData(parts) ==
    LET hits == { j \in 1..Len(parts) : parts[j].inlineData # None }
    IN  IF hits = {} THEN << >>
        ELSE parts[CHOOSE j \in hits : \A m \in hits : j <= m].inlineData[1].data

\* The try block of generateDecorIdeas: what it returns or throws.
DesignTry(outcome) ==
    IF outcome.threw
    THEN [status |-> "rejected", value |-> None, reason |-> outcome.thrown]
    ELSE IF outcome.candidates = None \/ outcome.candidates[1] = << >>
    THEN Rejected(NoImageMessage)
    ELSE IF outcome.candidates[1][1].content = None
    THEN Rejected(TypeErrorMessage)
    ELSE LET image == FirstInlineData(outcome.candidates[1][1].content[1].parts)
         IN  IF image = << >> THEN Rejected(NoImageMessage) ELSE Fulfilled(image)

\* generateDecorIdeas as it would be if it fell back to the room image the
\* way enhanceImage does.
generateDecorIdeasFallingBack(roomImage, decorImages, stylePromptText, outcome) ==
    LET try == DesignTry(outcome)
    IN  IF try.status = "fulfilled" THEN try
        ELSE Fulfilled(fileToGenerativePart(roomImage).value[1].inlineData[1].data)

\* generateDecorIdeas, given how its generateContent call settled: the image,
\* or a new Error wrapping whatever was thrown in the try block.
generateDecorIdeas(roomImage, decorImages, stylePromptText, outcome) ==
    LET try == DesignTry(outcome)
    IN  IF try.status = "fulfilled" THEN try
        ELSE IF try.reason[1].isError
        THEN Rejected(FailedPrefix \o try.reason[1].message)
        ELSE Rejected(UnknownDesignMessage)

\* ---------------------------------------------------------------- state
VARIABLES
    roomImages,     \* App state: File[]
    decorImages,    \* App state: File[]
    stylePrompt,    \* App state: string
    results,        \* App state: Result[]
    isLoading,      \* App state: boolean
    error,          \* App state: string | null
    batches,        \* one record per started handleGenerate: its closure, its
                    \* per-room-image chains and its Promise.all
    calls,          \* bag of the generateContent calls issued so far
    isPlaying,      \* useAudioPlayer state of each result card
    mounted,        \* whether each result card is displayed
    queue,          \* speechSynthesis: utterances submitted and not yet ended
    signals,        \* end/error events of cancelled utterances not yet delivered
    uttered,        \* number of utterances created so far
    engine,         \* what speechSynthesis.speaking reports for this browser
    beforeImage,    \* ResultCard prop: string
    afterImage,     \* ResultCard prop: string
    isDropdownOpen, \* ResultCard state: boolean
    compositions,   \* one record per createComparisonImage call of the card
    downloads,      \* the files the card has saved (downloadImage calls)
    uncaught,       \* errors that left a handler of the card uncaught
    previews,       \* DecorImageManager state: string[], the newPreviews of
                    \* the latest run of its effect (also held by its cleanup)
    objectUrls,     \* the object URLs created and not yet revoked
    managerMounted  \* whether the DecorImageManager is displayed

appVars == << roomImages, decorImages, stylePrompt, results, isLoading, error >>
batchVars == << batches, calls >>
audioVars == << isPlaying, mounted, queue, signals, uttered, engine >>
cardVars == << beforeImage, afterImage, isDropdownOpen, compositions, downloads, uncaught >>
previewVars == << previews, objectUrls, managerMounted >>
vars == << roomImages, decorImages, stylePrompt, results, isLoading, error,
           batches, calls, isPlaying, mounted, queue, signals, uttered, engine,
           beforeImage, afterImage, isDropdownOpen, compositions, downloads, uncaught,
           previews, objectUrls, managerMounted >>

Cards == 1..NumCards

\* ------------------------------------------------- Decor previews
\* The preview effect of DecorImageManager (lines 13-20). An object URL is
\* a natural number; URL.createObjectURL returns one that is not live (the
\* least such number: nothing refers to a URL once it has been revoked and
\* the previews state has been replaced, which the effect does in one go).
Range(seq) == { seq[k] : k \in 1..Len(seq) }

createObjectURL(live) ==
    CHOOSE url \in 1..(Cardinality(live) + 1) :
        url \notin live /\ \A smaller \in 1..(url - 1) : smaller \in live

\* images.map(file => URL.createObjectURL(file)) (line 14).
RECURSIVE MapCreateObjectURL(_, _)
MapCreateObjectURL(images, live) ==
    IF images = << >> THEN << >>
    ELSE LET url == createObjectURL(live)
         IN  << url >> \o MapCreateObjectURL(Tail(images), live \cup { url })

\* The effect's cleanup as it would be if it revoked nothing.
RevokeNothing(newPreviews) ==
    objectUrls

\* The effect's cleanup (lines 17-19): the live URLs it leaves.
RevokePreviews(newPreviews) ==
    objectUrls \ Range(newPreviews)

\* A change of the images prop: React runs the cleanup of the previous run
\* of the effect, then the effect with the new list (lines 13-20).
PreviewEffect(images) ==
    LET live == RevokePreviews(previews)
        newPreviews == MapCreateObjectURL(images, live)
    IN  /\ previews' = newPreviews
        /\ objectUrls' = live \cup Range(newPreviews)
        /\ UNCHANGED managerMounted

\* The DecorImageManager leaves the page: React runs the cleanup of the
\* last run of the effect (lines 17-19).
DecorImageManagerUnmount ==
    /\ managerMounted
    /\ managerMounted' = FALSE
    /\ objectUrls' = RevokePreviews(previews)
    /\ UNCHANGED << previews, appVars, batchVars, audioVars, cardVars >>

\* The manager is displayed with the page; its first effect run maps the
\* empty list (App.tsx line 26, DecorImageManager.tsx lines 10-15).
PreviewInit ==
    /\ previews = << >>
    /\ objectUrls = {}
    /\ managerMounted = TRUE

\* ------------------------------------------------- Generation Orchestrator
NoRoomImagesMessage == <<"Please upload at least one image of your room.">>
NoPromptMessage == <<"Please provide a style prompt.">>
UnknownErrorMessage == <<"An unknown error occurred.">>

IsBlank(token) == token \in {" ", "\t", "\n"}

\* trim as it would be if it removed nothing.
trimNothing(s) == s

\* String.prototype.trim: the string without leading and trailing whitespace.
RECURSIVE trim(_)
trim(s) ==
    IF s = << >> THEN s
    ELSE IF IsBlank(s[1]) THEN trim(Tail(s))
    ELSE IF IsBlank(s[Len(s)]) THEN trim(SubSeq(s, 1, Len(s) - 1))
    ELSE s

\* A chain is the async arrow function of roomImages.map (lines 49-58). Its
\* awaits are: the file read inside enhanceImage ("enhRead"), the enhancement
\* call ("enhCall"), the file reads inside generateDecorIdeas ("genRead",
\* reached directly or after the catch block's file read), the design call
\* ("genCall"). It then settles.
\* fellBack records which way enhanceImage returned.
NewChain ==
    [pc |-> "enhRead", enhancedBeforeImage |-> None, fellBack |-> FALSE]

\* The Result object of lines 54-57.
Result(enhancedBeforeImage, idea) ==
    [enhancedBeforeImage |-> enhancedBeforeImage, idea |-> idea]

\* The closure of one handleGenerate invocation, the promises of its map and
\* the state of its Promise.all (values collected by index, or settled).
NewBatch(rooms, decor, prompt) ==
    [roomImages |-> rooms, decorImages |-> decor, stylePrompt |-> prompt,
     chains |-> [k \in 1..Len(rooms) |-> NewChain],
     all |-> [state |-> "pending", values |-> [k \in 1..Len(rooms) |-> None]]]

Call(op, b, i, parts) == [op |-> op, batch |-> b, index |-> i, parts |-> parts]

\* Promise.all as it would be if a rejection were recorded as an empty
\* Result instead of rejecting the whole.
PromiseAllKeepingGoing(all, i, settlement) ==
    IF all.state # "pending" THEN all
    ELSE LET values == [all.values EXCEPT ![i] =
                            IF settlement.status = "rejected"
                            THEN Some(Result(<< >>, << >>))
                            ELSE settlement.value]
         IN  [state |-> IF \A k \in 1..Len(values) : values[k] # None
                        THEN "fulfilled" ELSE "pending",
              values |-> values]

\* Promise.all as it would be if it collected values in completion order.
PromiseAllInCompletionOrder(all, i, settlement) ==
    IF all.state # "pending" THEN all
    ELSE IF settlement.status = "rejected"
    THEN [all EXCEPT !.state = "rejected"]
    ELSE LET free == CHOOSE k \in 1..Len(all.values) :
                         all.values[k] = None /\ \A m \in 1..(k - 1) : all.values[m] # None
             values == [all.values EXCEPT ![free] = settlement.value]
         IN  [state |-> IF \A k \in 1..Len(values) : values[k] # None
                        THEN "fulfilled" ELSE "pending",
              values |-> values]

\* Promise.all: a fulfilment is stored at its own index and the whole
\* fulfils when every index is filled; the first rejection rejects the
\* whole; a settled Promise.all ignores later settlements. (The values are
\* kept until Promise.all settles and hands them to the awaiting handler.)
PromiseAll(all, i, settlement) ==
    IF all.state # "pending" THEN all
    ELSE IF settlement.status = "rejected"
    THEN [all EXCEPT !.state = "rejected"]
    ELSE LET values == [all.values EXCEPT ![i] = settlement.value]
         IN  [state |-> IF \A k \in 1..Len(values) : values[k] # None
                        THEN "fulfilled" ELSE "pending",
              values |-> values]

\* handleGenerate as it would be without its two validation checks.
handleGenerateUnvalidated ==
    /\ ~isLoading
    /\ Len(batches) < MaxBatches
    /\ isLoading' = TRUE
    /\ error' = None
    /\ results' = << >>
    /\ batches' = Append(batches, NewBatch(roomImages, decorImages, stylePrompt))
    /\ UNCHANGED << roomImages, decorImages, stylePrompt, calls >>
    /\ UNCHANGED audioVars
    /\ UNCHANGED cardVars
    /\ UNCHANGED previewVars

\* handleGenerate as it would be without the three resets that open a batch
\* (lines 45-46 forgotten: the error and the results of the last run stay).
handleGenerateKeepingOutcome(maxBatches) ==
    /\ ~isLoading
    /\ IF Len(roomImages) = 0
       THEN /\ error' = Some(NoRoomImagesMessage)
            /\ UNCHANGED << results, isLoading, batches >>
       ELSE IF trim(stylePrompt) = << >>
       THEN /\ error' = Some(NoPromptMessage)
            /\ UNCHANGED << results, isLoading, batches >>
       ELSE /\ Len(batches) < maxBatches
            /\ isLoading' = TRUE
            /\ UNCHANGED << error, results >>
            /\ batches' = Append(batches, NewBatch(roomImages, decorImages, stylePrompt))
    /\ UNCHANGED << roomImages, decorImages, stylePrompt, calls >>
    /\ UNCHANGED audioVars
    /\ UNCHANGED cardVars
    /\ UNCHANGED previewVars

\* handleGenerate up to its await (lines 34-60); the button that calls it is
\* disabled while isLoading (line 131). A behaviour starts fewer than
\* maxBatches batches.
handleGenerateUpTo(maxBatches) ==
    /\ ~isLoading
    /\ IF Len(roomImages) = 0
       THEN /\ error' = Some(NoRoomImagesMessage)
            /\ UNCHANGED << results, isLoading, batches >>
       ELSE IF trim(stylePrompt) = << >>
       THEN /\ error' = Some(NoPromptMessage)
            /\ UNCHANGED << results, isLoading, batches >>
       ELSE /\ Len(batches) < maxBatches
            /\ isLoading' = TRUE
            /\ error' = None
            /\ results' = << >>
            /\ batches' = Append(batches, NewBatch(roomImages, decorImages, stylePrompt))
    /\ UNCHANGED << roomImages, decorImages, stylePrompt, calls >>
    /\ UNCHANGED audioVars
    /\ UNCHANGED cardVars
    /\ UNCHANGED previewVars

handleGenerate ==
    handleGenerateUpTo(MaxBatches)

\* What the chain settles with once generateDecorIdeas has settled.
ChainSettlement(batch, i, idea) ==
    IF idea.status = "fulfilled"
    THEN Fulfilled(Result(batch.chains[i].enhancedBeforeImage[1], idea.value[1]))
    ELSE idea

\* The catch block of handleGenerate (line 65):
\* err instanceof Error ? err.message : 'An unknown error occurred.'
ErrorText(reason) ==
    IF reason.isError THEN reason.message ELSE UnknownErrorMessage

\* SettleChain as it would be if setIsLoading(false) stood at the end of the
\* try block instead of in a finally block.
SettleChainWithoutFinally(b, i, settlement) ==
    LET all == PromiseAll(batches[b].all, i, settlement)
        resumed == batches[b].all.state = "pending" /\ all.state # "pending"
    IN  /\ batches' = [batches EXCEPT
               ![b].chains[i].pc = settlement.status,
               ![b].chains[i].enhancedBeforeImage = None,
               ![b].chains[i].fellBack = FALSE,
               ![b].all = IF all.state = "pending" THEN all
                          ELSE [all EXCEPT !.values = << >>]]
        /\ IF resumed /\ all.state = "fulfilled"
           THEN /\ results' = [k \in 1..Len(all.values) |-> all.values[k][1]]
                /\ isLoading' = FALSE
                /\ UNCHANGED error
           ELSE IF resumed
           THEN /\ error' = Some(ErrorText(settlement.reason[1]))
                /\ UNCHANGED << results, isLoading >>
           ELSE UNCHANGED << results, isLoading, error >>

\* SettleChain as it would be if every chain reported its own failure
\* (a catch block inside the mapped function calling setError).
SettleChainReportingEach(b, i, settlement) ==
    LET all == PromiseAll(batches[b].all, i, settlement)
        resumed == batches[b].all.state = "pending" /\ all.state # "pending"
    IN  /\ batches' = [batches EXCEPT
               ![b].chains[i].pc = settlement.status,
               ![b].chains[i].enhancedBeforeImage = None,
               ![b].chains[i].fellBack = FALSE,
               ![b].all = IF all.state = "pending" THEN all
                          ELSE [all EXCEPT !.values = << >>]]
        /\ IF resumed /\ all.state = "fulfilled"
           THEN /\ results' = [k \in 1..Len(all.values) |-> all.values[k][1]]
                /\ isLoading' = FALSE
                /\ UNCHANGED error
           ELSE IF settlement.status = "rejected"
           THEN /\ error' = Some(ErrorText(settlement.reason[1]))
                /\ isLoading' = FALSE
                /\ UNCHANGED results
           ELSE UNCHANGED << results, isLoading, error >>

\* SettleChain as it would be if every chain cleared the loading state when
\* it settles (a finally block inside the mapped function).
SettleChainClearingLoading(b, i, settlement) ==
    LET all == PromiseAll(batches[b].all, i, settlement)
        resumed == batches[b].all.state = "pending" /\ all.state # "pending"
    IN  /\ batches' = [batches EXCEPT
               ![b].chains[i].pc = settlement.status,
               ![b].chains[i].enhancedBeforeImage = None,
               ![b].chains[i].fellBack = FALSE,
               ![b].all = IF all.state = "pending" THEN all
                          ELSE [all EXCEPT !.values = << >>]]
        /\ isLoading' = FALSE
        /\ IF resumed /\ all.state = "fulfilled"
           THEN /\ results' = [k \in 1..Len(all.values) |-> all.values[k][1]]
                /\ UNCHANGED error
           ELSE IF resumed
           THEN /\ error' = Some(ErrorText(settlement.reason[1]))
                /\ UNCHANGED results
           ELSE UNCHANGED << results, error >>

\* Chain i of batch b settles: Promise.all takes note, and if that settles
\* Promise.all the handler resumes in the same turn: setResults on
\* fulfilment, setError in the catch block, setIsLoading(false) in the
\* finally block (lines 60-68).
SettleChain(b, i, settlement) ==
    LET all == PromiseAll(batches[b].all, i, settlement)
        resumed == batches[b].all.state = "pending" /\ all.state # "pending"
    IN  /\ batches' = [batches EXCEPT
               ![b].chains[i].pc = settlement.status,
               ![b].chains[i].enhancedBeforeImage = None,
               ![b].chains[i].fellBack = FALSE,
               ![b].all = IF all.state = "pending" THEN all
                          ELSE [all EXCEPT !.values = << >>]]
        /\ IF resumed /\ all.state = "fulfilled"
           THEN /\ results' = [k \in 1..Len(all.values) |-> all.values[k][1]]
                /\ isLoading' = FALSE
                /\ UNCHANGED error
           ELSE IF resumed
           THEN /\ error' = Some(ErrorText(settlement.reason[1]))
                /\ isLoading' = FALSE
                /\ UNCHANGED results
           ELSE UNCHANGED << results, isLoading, error >>

\* EnhanceCallIssued as it would be if the room images were worked through
\* one after the other (a loop awaiting each chain) instead of mapped.
EnhanceCallIssuedInTurn(b, i) ==
    /\ batches[b].chains[i].pc = "enhRead"
    /\ \A j \in 1..(i - 1) : batches[b].chains[j].pc \in {"fulfilled", "rejected"}
    /\ batches' = [batches EXCEPT ![b].chains[i].pc = "enhCall"]
    /\ calls' = calls (+) SetToBag({ Call("enhance", b, i,
                    EnhanceRequest(batches[b].roomImages[i])) })
    /\ UNCHANGED appVars
    /\ UNCHANGED audioVars
    /\ UNCHANGED cardVars
    /\ UNCHANGED previewVars

\* The FileReader of enhanceImage's fileToGenerativePart finishes and the
\* enhancement call is issued (lines 41-56).
EnhanceCallIssued(b, i) ==
    /\ batches[b].chains[i].pc = "enhRead"
    /\ LET imagePart == fileToGenerativePart(batches[b].roomImages[i])
       IN  IF imagePart.status = "rejected"
           THEN /\ SettleChain(b, i, imagePart)
                /\ UNCHANGED calls
           ELSE /\ batches' = [batches EXCEPT ![b].chains[i].pc = "enhCall"]
                /\ calls' = calls (+) SetToBag({ Call("enhance", b, i,
                                EnhanceRequest(batches[b].roomImages[i])) })
                /\ UNCHANGED << results, isLoading, error >>
    /\ UNCHANGED << roomImages, decorImages, stylePrompt >>
    /\ UNCHANGED audioVars
    /\ UNCHANGED cardVars
    /\ UNCHANGED previewVars

\* The enhancement call settles; enhanceImage returns (after the catch
\* block's file read when it fell back) and the chain goes on into
\* generateDecorIdeas, whose file reads start (lines 57-76, 51-53, 88-89).
EnhanceCallSettled(b, i) ==
    /\ batches[b].chains[i].pc = "enhCall"
    /\ \E outcome \in CallOutcomes(EnhanceRequest(batches[b].roomImages[i])) :
          LET enhanced == enhanceImage(batches[b].roomImages[i], outcome)
          IN  IF enhanced.status = "rejected"
              THEN SettleChain(b, i, enhanced)
              ELSE /\ batches' = [batches EXCEPT
                          ![b].chains[i].pc = "genRead",
                          ![b].chains[i].enhancedBeforeImage = enhanced.value,
                          ![b].chains[i].fellBack = (EnhanceResponseImage(outcome) = None)]
                   /\ UNCHANGED << results, isLoading, error >>
    /\ UNCHANGED << roomImages, decorImages, stylePrompt, calls >>
    /\ UNCHANGED audioVars
    /\ UNCHANGED cardVars
    /\ UNCHANGED previewVars

\* The file reads of lines 88-89, in order: the room image, then the decor
\* images. The first rejected read, or None when all of them resolve.
DesignReads(roomImage, decor) ==
    LET reads == << fileToGenerativePart(roomImage) >>
                 \o [k \in 1..Len(decor) |-> fileToGenerativePart(decor[k])]
        bad == { k \in 1..Len(reads) : reads[k].status = "rejected" }
    IN  IF bad = {} THEN None ELSE Some(reads[CHOOSE k \in bad : \A m \in bad : k <= m])

\* DesignCallIssued as it would be if the chain read the decor images and
\* the style prompt from the current state instead of its closure.
DesignCallIssuedFromState(b, i) ==
    /\ batches[b].chains[i].pc = "genRead"
    /\ batches' = [batches EXCEPT ![b].chains[i].pc = "genCall"]
    /\ calls' = calls (+) SetToBag({ Call("design", b, i,
                    DesignRequest(batches[b].roomImages[i], decorImages, stylePrompt)) })
    /\ UNCHANGED appVars
    /\ UNCHANGED audioVars
    /\ UNCHANGED cardVars
    /\ UNCHANGED previewVars

\* The file reads of generateDecorIdeas finish and the design call is issued
\* with the closure's decor images and style prompt (lines 88-125).
DesignCallIssued(b, i) ==
    /\ batches[b].chains[i].pc = "genRead"
    /\ LET failed == DesignReads(batches[b].roomImages[i], batches[b].decorImages)
       IN  IF failed # None
           THEN /\ SettleChain(b, i, failed[1])
                /\ UNCHANGED calls
           ELSE /\ batches' = [batches EXCEPT ![b].chains[i].pc = "genCall"]
                /\ calls' = calls (+) SetToBag({ Call("design", b, i,
                                DesignRequest(batches[b].roomImages[i], batches[b].decorImages,
                                              batches[b].stylePrompt)) })
                /\ UNCHANGED << results, isLoading, error >>
    /\ UNCHANGED << roomImages, decorImages, stylePrompt >>
    /\ UNCHANGED audioVars
    /\ UNCHANGED cardVars
    /\ UNCHANGED previewVars

\* The design call settles, generateDecorIdeas returns or throws, and the
\* chain settles with its Result or with that error (lines 126-151, 53-57).
DesignCallSettled(b, i) ==
    /\ batches[b].chains[i].pc = "genCall"
    /\ \E outcome \in CallOutcomes(DesignRequest(batches[b].roomImages[i],
                                     batches[b].decorImages, batches[b].stylePrompt)) :
          SettleChain(b, i, ChainSettlement(batches[b], i,
              generateDecorIdeas(batches[b].roomImages[i], batches[b].decorImages,
                                 batches[b].stylePrompt, outcome)))
    /\ UNCHANGED << roomImages, decorImages, stylePrompt, calls >>
    /\ UNCHANGED audioVars
    /\ UNCHANGED cardVars
    /\ UNCHANGED previewVars

\* The room image manager replaces the room image list (line 96).
setRoomImages ==
    /\ \E images \in RoomImageLists : roomImages' = images
    /\ UNCHANGED << decorImages, stylePrompt, results, isLoading, error >>
    /\ UNCHANGED batchVars
    /\ UNCHANGED audioVars
    /\ UNCHANGED cardVars
    /\ UNCHANGED previewVars

\* The decor image manager replaces the decor image list (line 97).
setDecorImages ==
    /\ managerMounted
    /\ \E images \in DecorImageLists :
          /\ decorImages' = images
          /\ PreviewEffect(images)
    /\ UNCHANGED << roomImages, stylePrompt, results, isLoading, error >>
    /\ UNCHANGED batchVars
    /\ UNCHANGED audioVars
    /\ UNCHANGED cardVars

\* The textarea's onChange replaces the style prompt (line 109).
setStylePrompt ==
    /\ \E text \in StylePrompts : stylePrompt' = text
    /\ UNCHANGED << roomImages, decorImages, results, isLoading, error >>
    /\ UNCHANGED batchVars
    /\ UNCHANGED audioVars
    /\ UNCHANGED cardVars
    /\ UNCHANGED previewVars

\* The props App passes to the ResultCard of a result (lines 165-169).
\* result.idea is the string generateDecorIdeas resolved with, and reading
\* a property such as "image" or "description" of a string yields undefined.
StringProperty(str, name) ==
    IF name = "length" THEN Some(Len(str)) ELSE None

ResultCardProps(result) ==
    [description |-> StringProperty(result.idea, "description"),
     beforeImage |-> Some(result.enhancedBeforeImage),
     afterImage |-> StringProperty(result.idea, "image")]

\* ------------------------------------------------- Decor Image Manager
\* The filter of handleFileChange (lines 26-28).
AcceptedTypes == { "image/jpeg", "image/png", "image/webp" }
MaxFileSize == 4 * 1024 * 1024

\* The filter as it would be with the size test forgotten.
IsValidFileOfAnySize(file) ==
    file.type \in AcceptedTypes

IsValidFile(file) ==
    file.type \in AcceptedTypes /\ file.size <= MaxFileSize

\* Array.prototype.filter with a predicate on the element.
RECURSIVE FilterFiles(_)
FilterFiles(files) ==
    IF files = << >> THEN << >>
    ELSE IF IsValidFile(Head(files)) THEN << Head(files) >> \o FilterFiles(Tail(files))
    ELSE FilterFiles(Tail(files))

\* Array.prototype.filter((_, i) => i !== index), with index counted from 1.
RemoveAt(images, index) ==
    [k \in 1..(Len(images) - 1) |-> IF k < index THEN images[k] ELSE images[k + 1]]

\* handleFileChange (lines 23-35) with onImagesChange = setDecorImages
\* (App.tsx line 97): the valid files of the selection are appended. The
\* list passed to onImagesChange is a new array even when no file is valid,
\* so the preview effect runs again whenever the selection is not empty.
handleFileChange(files) ==
    /\ managerMounted
    /\ Len(decorImages) + Len(FilterFiles(files)) <= MaxDecorImages
    /\ IF Len(files) > 0
       THEN /\ decorImages' = decorImages \o FilterFiles(files)
            /\ PreviewEffect(decorImages \o FilterFiles(files))
       ELSE UNCHANGED << decorImages, previewVars >>
    /\ UNCHANGED << roomImages, stylePrompt, results, isLoading, error >>
    /\ UNCHANGED batchVars
    /\ UNCHANGED audioVars
    /\ UNCHANGED cardVars

\* handleRemoveImage (lines 37-40), called by the remove button of the
\* preview at that index.
handleRemoveImage(index) ==
    /\ managerMounted
    /\ index \in 1..Len(decorImages)
    /\ decorImages' = RemoveAt(decorImages, index)
    /\ PreviewEffect(RemoveAt(decorImages, index))
    /\ UNCHANGED << roomImages, stylePrompt, results, isLoading, error >>
    /\ UNCHANGED batchVars
    /\ UNCHANGED audioVars
    /\ UNCHANGED cardVars

\* ------------------------------------------------- Comparison Compositor
\* A base64 PNG is the token "iVBOR" (the encoded signature) followed by the
\* width and the height of its header; anything else does not decode.
Digits == [w1 |-> 1, w2 |-> 2, w3 |-> 3, h1 |-> 1, h2 |-> 2, h3 |-> 3]
Png(w, h) == << "iVBOR", w, h >>
\* The strings a result card can get as beforeImage or afterImage: PNGs of
\* several shapes, the empty string, and the text of an undefined value.
CardImages ==
    { Png(w, h) : w \in {"w1", "w2", "w3"}, h \in {"h1", "h2", "h3"} }
    \cup { << >>, << "undefined" >> }

\* What an Image element makes of src = `data:image/png;base64,${data}`:
\* the decoded width and height, or None when the data does not decode.
Decode(data) ==
    IF Len(data) = 3 /\ data[1] = "iVBOR"
    THEN Some([width |-> Digits[data[2]], height |-> Digits[data[3]]])
    ELSE None

\* JavaScript numbers that need not be whole are fractions num / den.
Frac(num, den) == [num |-> num, den |-> den]
Whole(n) == Frac(n, 1)
Times(a, b) == Frac(a.num * b.num, a.den * b.den)
Plus(a, b) == Frac(a.num * b.den + b.num * a.den, a.den * b.den)
Max(a, b) == IF a >= b THEN a ELSE b

\* Assigning a number to canvas.width or canvas.height, attributes of type
\* unsigned long: the fraction is cut off, and a number that is not finite
\* (a division by zero) becomes 0. (The numbers here are non-negative and far
\* below 2^32, where the conversion would wrap.)
ToUnsignedLong(x) ==
    IF x.den = 0 THEN 0 ELSE x.num \div x.den

\* An Image element: width and height are 0 until the image has loaded.
NewImage == [state |-> "loading", width |-> 0, height |-> 0]

\* The promise of one createComparisonImage call with the two Image
\* elements and the counter of its closure (lines 47-50).
NewComposition ==
    [before |-> NewImage, after |-> NewImage, loadedCount |-> 0,
     promise |-> [status |-> "pending", value |-> None, reason |-> None]]

\* resolve or reject of a promise: only the first call settles it.
Settle(promise, settlement) ==
    IF promise.status = "pending" THEN settlement ELSE promise

\* The canvas of lines 55-69 once both images have loaded: its size and the
\* two drawImage calls (x, y, width, height). The data URL of line 85 is
\* named by the canvas it encodes.
Canvas(before, after) ==
    LET height == Max(before.height, after.height)
        beforeScaledWidth == Times(Whole(before.width), Frac(height, before.height))
        afterScaledWidth == Times(Whole(after.width), Frac(height, after.height))
    IN  [width |-> ToUnsignedLong(Plus(beforeScaledWidth, afterScaledWidth)),
         height |-> ToUnsignedLong(Whole(height)),
         drawBefore |-> [x |-> Whole(0), y |-> 0, width |-> beforeScaledWidth, height |-> height],
         drawAfter |-> [x |-> beforeScaledWidth, y |-> 0, width |-> afterScaledWidth, height |-> height]]

NoContextMessage == <<"Failed to get canvas context.">>

\* onImageLoad as it would be if it composed at the first load.
onImageLoadEager(composition, ctx) ==
    LET count == composition.loadedCount + 1
    IN  [composition EXCEPT
            !.loadedCount = count,
            !.promise = IF count >= 1
                        THEN Settle(@, IF ctx THEN Fulfilled(Canvas(composition.before, composition.after))
                                       ELSE Rejected(NoContextMessage))
                        ELSE @]

\* onImageLoad (lines 52-87), run when either image has loaded; ctx tells
\* whether canvas.getContext('2d') returns a context.
onImageLoad(composition, ctx) ==
    LET count == composition.loadedCount + 1
    IN  [composition EXCEPT
            !.loadedCount = count,
            !.promise = IF count = 2
                        THEN Settle(@, IF ctx THEN Fulfilled(Canvas(composition.before, composition.after))
                                       ELSE Rejected(NoContextMessage))
                        ELSE @]

\* The onerror handler of both images (line 90): reject(err), where err is
\* the error event, no Error instance.
onImageError(composition) ==
    [composition EXCEPT
        !.promise = Settle(@, [status |-> "rejected", value |-> None,
                               reason |-> Some([isError |-> FALSE, message |-> <<"error">>])])]

\* downloadImage (lines 32-39).
Download(href, filename) == [href |-> href, download |-> filename]

\* handleDownloadComparison after its await (lines 99-105), and the rest of
\* handleDownloadBoth where that is the caller (line 111): the composed
\* image is saved, or the rejection is caught and logged; either way the
\* dropdown is closed.
Resume(promise) ==
    /\ isDropdownOpen' = FALSE
    /\ UNCHANGED uncaught
    /\ IF promise.status = "fulfilled"
       THEN downloads' = Append(downloads, Download(promise.value[1], "ai-design-comparison.png"))
       ELSE UNCHANGED downloads

\* A step of composition k: if it settles the promise, the handler awaiting
\* it resumes in the same turn.
Advance(k, composition) ==
    /\ compositions' = [compositions EXCEPT ![k] = composition]
    /\ IF compositions[k].promise.status = "pending" /\ composition.promise.status # "pending"
       THEN Resume(composition.promise)
       ELSE UNCHANGED << isDropdownOpen, downloads, uncaught >>

\* The download button of the card (line 141).
toggleDropdown ==
    /\ isDropdownOpen' = ~isDropdownOpen
    /\ UNCHANGED << beforeImage, afterImage, compositions, downloads, uncaught >>
    /\ UNCHANGED appVars
    /\ UNCHANGED batchVars
    /\ UNCHANGED audioVars
    /\ UNCHANGED previewVars

\* handleClickOutside (lines 17-21): a mousedown outside the dropdown.
handleClickOutside ==
    /\ isDropdownOpen
    /\ isDropdownOpen' = FALSE
    /\ UNCHANGED << beforeImage, afterImage, compositions, downloads, uncaught >>
    /\ UNCHANGED appVars
    /\ UNCHANGED batchVars
    /\ UNCHANGED audioVars
    /\ UNCHANGED previewVars

AfterHref == << "data:image/png;base64," >> \o afterImage

\* handleDownloadAfter (lines 41-44), a menu entry of the open dropdown.
handleDownloadAfter ==
    /\ isDropdownOpen
    /\ Len(downloads) < MaxDownloads
    /\ downloads' = Append(downloads, Download(AfterHref, "ai-design-after.png"))
    /\ isDropdownOpen' = FALSE
    /\ UNCHANGED << beforeImage, afterImage, compositions, uncaught >>
    /\ UNCHANGED appVars
    /\ UNCHANGED batchVars
    /\ UNCHANGED audioVars
    /\ UNCHANGED previewVars

\* handleDownloadComparison up to its await (lines 97-99): the promise and
\* the two images are created and start loading (lines 47-50, 89-93).
handleDownloadComparison ==
    /\ isDropdownOpen
    /\ Len(compositions) < MaxCompositions
    /\ Len(downloads) < MaxDownloads
    /\ compositions' = Append(compositions, NewComposition)
    /\ UNCHANGED << beforeImage, afterImage, isDropdownOpen, downloads, uncaught >>
    /\ UNCHANGED appVars
    /\ UNCHANGED batchVars
    /\ UNCHANGED audioVars
    /\ UNCHANGED previewVars

\* handleDownloadBoth up to its await (lines 108-110): handleDownloadAfter,
\* then handleDownloadComparison up to its await.
handleDownloadBoth ==
    /\ isDropdownOpen
    /\ Len(compositions) < MaxCompositions
    /\ Len(downloads) + 1 < MaxDownloads
    /\ downloads' = Append(downloads, Download(AfterHref, "ai-design-after.png"))
    /\ isDropdownOpen' = FALSE
    /\ compositions' = Append(compositions, NewComposition)
    /\ UNCHANGED << beforeImage, afterImage, uncaught >>
    /\ UNCHANGED appVars
    /\ UNCHANGED batchVars
    /\ UNCHANGED audioVars
    /\ UNCHANGED previewVars

\* The data an image of a composition was given as src (lines 92-93).
SrcData(which) == IF which = "before" THEN beforeImage ELSE afterImage

\* An image of composition k has been decoded: its load event runs
\* onImageLoad.
ImageLoaded(k, which) ==
    /\ compositions[k][which].state = "loading"
    /\ Decode(SrcData(which)) # None
    /\ LET size == Decode(SrcData(which))[1]
           loaded == [compositions[k] EXCEPT
                         ![which] = [state |-> "loaded", width |-> size.width, height |-> size.height]]
       IN  \E ctx \in BOOLEAN : Advance(k, onImageLoad(loaded, ctx))
    /\ UNCHANGED << beforeImage, afterImage >>
    /\ UNCHANGED appVars
    /\ UNCHANGED batchVars
    /\ UNCHANGED audioVars
    /\ UNCHANGED previewVars

\* An image of composition k could not be decoded: its error event runs the
\* onerror handler.
ImageFailed(k, which) ==
    /\ compositions[k][which].state = "loading"
    /\ Decode(SrcData(which)) = None
    /\ Advance(k, onImageError([compositions[k] EXCEPT ![which].state = "failed"]))
    /\ UNCHANGED << beforeImage, afterImage >>
    /\ UNCHANGED appVars
    /\ UNCHANGED batchVars
    /\ UNCHANGED audioVars
    /\ UNCHANGED previewVars

\* No result card is followed while there are no results.
CardInit ==
    /\ beforeImage = << >>
    /\ afterImage = << >>
    /\ isDropdownOpen = FALSE
    /\ compositions = << >>
    /\ downloads = << >>
    /\ uncaught = 0

\* ------------------------------------------------- Narration Client
\* window.speechSynthesis, shared by every useAudioPlayer instance: a queue
\* of utterances of which only the first can have begun being spoken.
\* speechSynthesis.speaking is true once an utterance has begun and has not
\* completed (engine "begun", the Web Speech API's wording, Firefox), or as
\* soon as an utterance is in the queue (engine "queued", Chromium).
Engines == { "begun", "queued" }

speaking ==
    /\ queue # << >>
    /\ engine = "begun" => queue[1].begun

Utterance(id, card) == [id |-> id, card |-> card, begun |-> FALSE]

\* What speechSynthesis.cancel() leaves to be delivered later: an end or
\* error event for the utterance that was being spoken, an error event for
\* each utterance removed before it began. Each event remembers whether its
\* utterance had begun and which function called cancel (stop or speak).
CancelSignals(kind, from) ==
    { [id |-> queue[k].id, card |-> queue[k].card, begun |-> queue[k].begun, from |-> from,
       kind |-> IF queue[k].begun THEN kind ELSE "error"] : k \in 1..Len(queue) }

\* setIsPlaying(value) of a card's hook; a card no longer displayed has no
\* state to set.
SetIsPlaying(card, value) ==
    IF mounted[card] THEN [isPlaying EXCEPT ![card] = value] ELSE isPlaying

\* stop (lines 35-40).
stop(card) ==
    IF speaking
    THEN /\ isPlaying' = SetIsPlaying(card, FALSE)
         /\ queue' = << >>
         /\ \E kind \in {"end", "error"} : signals' = signals \cup CancelSignals(kind, "stop")
    ELSE UNCHANGED << isPlaying, queue, signals >>

\* speak (lines 42-71): cancel if speaking, then submit a new utterance whose
\* handlers set this card's isPlaying.
speak(card) ==
    /\ uttered < MaxUtterances
    /\ uttered' = uttered + 1
    /\ IF speaking
       THEN /\ queue' = << Utterance(uttered + 1, card) >>
            /\ \E kind \in {"end", "error"} : signals' = signals \cup CancelSignals(kind, "speak")
       ELSE /\ queue' = Append(queue, Utterance(uttered + 1, card))
            /\ UNCHANGED signals
    /\ UNCHANGED isPlaying

\* togglePlay (lines 80-86), called by the card's narration button.
togglePlay(card) ==
    /\ mounted[card]
    /\ IF isPlaying[card]
       THEN stop(card) /\ UNCHANGED uttered
       ELSE speak(card)
    /\ UNCHANGED << mounted, engine >>
    /\ UNCHANGED appVars
    /\ UNCHANGED batchVars
    /\ UNCHANGED cardVars
    /\ UNCHANGED previewVars

\* The first utterance of the queue begins to be spoken: its onstart runs
\* (lines 57-59).
UtteranceStart ==
    /\ queue # << >>
    /\ ~queue[1].begun
    /\ queue' = [queue EXCEPT ![1].begun = TRUE]
    /\ isPlaying' = SetIsPlaying(queue[1].card, TRUE)
    /\ UNCHANGED << mounted, signals, uttered, engine >>
    /\ UNCHANGED appVars
    /\ UNCHANGED batchVars
    /\ UNCHANGED cardVars
    /\ UNCHANGED previewVars

\* The utterance being spoken completes: its onend runs (lines 61-63).
UtteranceEnd ==
    /\ queue # << >>
    /\ queue[1].begun
    /\ queue' = Tail(queue)
    /\ isPlaying' = SetIsPlaying(queue[1].card, FALSE)
    /\ UNCHANGED << mounted, signals, uttered, engine >>
    /\ UNCHANGED appVars
    /\ UNCHANGED batchVars
    /\ UNCHANGED cardVars
    /\ UNCHANGED previewVars

\* The synthesizer fails on the first utterance of the queue, before or
\* while speaking it: its onerror runs (lines 65-68).
UtteranceError ==
    /\ queue # << >>
    /\ queue' = Tail(queue)
    /\ isPlaying' = SetIsPlaying(queue[1].card, FALSE)
    /\ UNCHANGED << mounted, signals, uttered, engine >>
    /\ UNCHANGED appVars
    /\ UNCHANGED batchVars
    /\ UNCHANGED cardVars
    /\ UNCHANGED previewVars

\* CancelledUtteranceSignal as it would be if the utterance had no onerror
\* handler: only an end event clears the flag.
CancelledUtteranceSignalEndOnly ==
    /\ \E signal \in signals :
          /\ signals' = signals \ { signal }
          /\ isPlaying' = IF signal.kind = "end"
                          THEN SetIsPlaying(signal.card, FALSE)
                          ELSE isPlaying
    /\ UNCHANGED << mounted, queue, uttered, engine >>
    /\ UNCHANGED appVars
    /\ UNCHANGED batchVars
    /\ UNCHANGED cardVars
    /\ UNCHANGED previewVars

\* The end or error event of a cancelled utterance is delivered: its onend
\* or onerror runs (lines 61-68).
CancelledUtteranceSignal ==
    /\ \E signal \in signals :
          /\ signals' = signals \ { signal }
          /\ isPlaying' = SetIsPlaying(signal.card, FALSE)
    /\ UNCHANGED << mounted, queue, uttered, engine >>
    /\ UNCHANGED appVars
    /\ UNCHANGED batchVars
    /\ UNCHANGED cardVars
    /\ UNCHANGED previewVars

\* A result card is removed from the page: the hook's cleanup calls stop
\* (lines 74-78).
Unmount(card) ==
    /\ mounted[card]
    /\ mounted' = [mounted EXCEPT ![card] = FALSE]
    /\ IF speaking
       THEN /\ queue' = << >>
            /\ \E kind \in {"end", "error"} : signals' = signals \cup CancelSignals(kind, "stop")
       ELSE UNCHANGED << queue, signals >>
    /\ isPlaying' = [isPlaying EXCEPT ![card] = FALSE]
    /\ UNCHANGED << uttered, engine >>
    /\ UNCHANGED appVars
    /\ UNCHANGED batchVars
    /\ UNCHANGED cardVars
    /\ UNCHANGED previewVars

\* No result card is displayed while there are no results.
AudioInit ==
    /\ isPlaying = [c \in Cards |-> FALSE]
    /\ mounted = [c \in Cards |-> FALSE]
    /\ queue = << >>
    /\ signals = {}
    /\ uttered = 0
    /\ engine = "begun"

\* App's useState initial values (lines 26-31).
Init ==
    /\ roomImages = << >>
    /\ decorImages = << >>
    /\ stylePrompt = << >>
    /\ results = << >>
    /\ isLoading = FALSE
    /\ error = None
    /\ batches = << >>
    /\ calls = EmptyBag
    /\ AudioInit
    /\ CardInit
    /\ PreviewInit

Next ==
    \/ handleGenerate
    \/ setRoomImages
    \/ setDecorImages
    \/ setStylePrompt
    \/ \E b \in 1..Len(batches) : \E i \in 1..Len(batches[b].chains) : EnhanceCallIssued(b, i)
    \/ \E b \in 1..Len(batches) : \E i \in 1..Len(batches[b].chains) : EnhanceCallSettled(b, i)
    \/ \E b \in 1..Len(batches) : \E i \in 1..Len(batches[b].chains) : DesignCallIssued(b, i)
    \/ \E b \in 1..Len(batches) : \E i \in 1..Len(batches[b].chains) : DesignCallSettled(b, i)

Spec == Init /\ [][Next]_vars

\* The narration hooks of the result cards of a finished batch: one card per
\* room image, here the same readable image chosen once per card.
CardRooms == [c \in Cards |-> FileA]
CardPrompt == <<"cozy">>
CardResult ==
    Result(ReplyImagePart(EnhanceRequest(FileA), "1").inlineData[1].data,
           ReplyImagePart(DesignRequest(FileA, << >>, CardPrompt), "1").inlineData[1].data)

InitAudio ==
    /\ roomImages = CardRooms
    /\ decorImages = << >>
    /\ stylePrompt = CardPrompt
    /\ results = [c \in Cards |-> CardResult]
    /\ isLoading = FALSE
    /\ error = None
    /\ batches = << [roomImages |-> CardRooms, decorImages |-> << >>, stylePrompt |-> CardPrompt,
                     chains |-> [c \in Cards |-> [pc |-> "fulfilled",
                                                  enhancedBeforeImage |-> None,
                                                  fellBack |-> FALSE]],
                     all |-> [state |-> "fulfilled", values |-> << >>]] >>
    /\ calls = SetToBag({ Call("enhance", 1, c, EnhanceRequest(FileA)) : c \in Cards }
                        \cup { Call("design", 1, c, DesignRequest(FileA, << >>, CardPrompt)) : c \in Cards })
    /\ isPlaying = [c \in Cards |-> FALSE]
    /\ mounted = [c \in Cards |-> TRUE]
    /\ queue = << >>
    /\ signals = {}
    /\ uttered = 0
    /\ engine \in Engines
    /\ CardInit
    /\ PreviewInit

NextAudio ==
    \/ \E card \in Cards : togglePlay(card)
    \/ UtteranceStart
    \/ UtteranceEnd
    \/ UtteranceError
    \/ CancelledUtteranceSignal
    \/ \E card \in Cards : Unmount(card)

SpecAudio == InitAudio /\ [][NextAudio]_vars

\* One result card with its download menu, for any two image strings as
\* props; the rest of the page is as after a finished batch.
InitCard ==
    /\ roomImages = << FileA >>
    /\ decorImages = << >>
    /\ stylePrompt = CardPrompt
    /\ results = << >>
    /\ isLoading = FALSE
    /\ error = None
    /\ batches = << >>
    /\ calls = EmptyBag
    /\ AudioInit
    /\ beforeImage \in CardImages
    /\ afterImage \in CardImages
    /\ isDropdownOpen = FALSE
    /\ compositions = << >>
    /\ downloads = << >>
    /\ uncaught = 0
    /\ PreviewInit

NextCard ==
    \/ toggleDropdown
    \/ handleClickOutside
    \/ handleDownloadAfter
    \/ handleDownloadComparison
    \/ handleDownloadBoth
    \/ \E k \in 1..Len(compositions) : \E which \in {"before", "after"} : ImageLoaded(k, which)
    \/ \E k \in 1..Len(compositions) : \E which \in {"before", "after"} : ImageFailed(k, which)

SpecCard == InitCard /\ [][NextCard]_vars

\* The decor image manager on the page of a freshly loaded App.
NextDecor ==
    \/ \E files \in Selections : handleFileChange(files)
    \/ \E index \in 1..MaxDecorImages : handleRemoveImage(index)
    \/ DecorImageManagerUnmount

SpecDecor == Init /\ [][NextDecor]_vars

\* The generate button pressed again after a batch has finished, for one
\* choice of inputs: two room images and a prompt, no decor image.
RestartRooms == << FileA, FileB >>
RestartPrompt == <<" ", "cozy", " ">>

InitRestart ==
    /\ roomImages = RestartRooms
    /\ decorImages = << >>
    /\ stylePrompt = RestartPrompt
    /\ results = << >>
    /\ isLoading = FALSE
    /\ error = None
    /\ batches = << >>
    /\ calls = EmptyBag
    /\ AudioInit
    /\ CardInit
    /\ PreviewInit

\* A step of some chain of some batch: a file read or a generateContent
\* call of the chain settles and the chain runs to its next await.
ChainStep ==
    \E b \in 1..Len(batches) : \E i \in 1..Len(batches[b].chains) :
        \/ EnhanceCallIssued(b, i)
        \/ EnhanceCallSettled(b, i)
        \/ DesignCallIssued(b, i)
        \/ DesignCallSettled(b, i)

NextRestart ==
    \/ handleGenerateUpTo(MaxBatches + 1)
    \/ ChainStep

SpecRestart == InitRestart /\ [][NextRestart]_vars

\* Every file read and every generateContent call settles, and the event
\* loop runs the continuation that waits for it.
SpecRestartFair == SpecRestart /\ WF_vars(ChainStep)

\* ---------------------------------------------------------------- claims
Batches == 1..Len(batches)
Chains(b) == 1..Len(batches[b].chains)
AllFulfilled(b) == \A i \in Chains(b) : batches[b].chains[i].pc = "fulfilled"
SomeRejected(b) == \E i \in Chains(b) : batches[b].chains[i].pc = "rejected"
Latest(b) == b = Len(batches)
DesignCalled(b, i) ==
    \E c \in BagToSet(calls) : c.op = "design" /\ c.batch = b /\ c.index = i

\* C1: all-or-nothing. A batch one of whose chains has failed is rejected as
\* a whole, and as long as it is the latest batch the result list is empty,
\* an error is shown and loading is over; a non-empty result list always
\* holds one result per room image of a batch all of whose chains succeeded.
C1_AllOrNothing ==
    /\ \A b \in Batches :
          SomeRejected(b) =>
              /\ batches[b].all.state = "rejected"
              /\ Latest(b) => (results = << >> /\ error # None /\ ~isLoading)
    /\ results # << >> =>
          /\ batches # << >>
          /\ AllFulfilled(Len(batches))
          /\ Len(results) = Len(batches[Len(batches)].roomImages)

\* Room images [A, B]: A's chain has succeeded and B's has failed.
C1_Witness ==
    \E b \in Batches :
        /\ Len(batches[b].chains) = 2
        /\ batches[b].chains[1].pc = "fulfilled"
        /\ batches[b].chains[2].pc = "rejected"

\* The image bytes the service can return for a request.
Replies(parts) == { ReplyImagePart(parts, v).inlineData[1].data : v \in {"1", "2"} }

\* The result was computed from room image i of the batch: its idea answers
\* the design request on that image, and its before-image is the answer to
\* the enhancement request on that image or that image re-encoded.
ComputedFrom(result, batch, i) ==
    /\ result.idea \in Replies(DesignRequest(batch.roomImages[i], batch.decorImages,
                                             batch.stylePrompt))
    /\ result.enhancedBeforeImage \in
          Replies(EnhanceRequest(batch.roomImages[i]))
          \cup { PartOf(batch.roomImages[i]).inlineData[1].data }

\* C2: length and order. When every chain of a batch has succeeded, its
\* Promise.all is fulfilled, and while it is the latest batch the result
\* list has one entry per room image, the i-th computed from the i-th room
\* image, in whatever order the calls completed. (Every batch has a
\* non-empty room image list and a prompt that is non-empty when trimmed.)
C2_LengthAndOrder ==
    \A b \in Batches :
        /\ batches[b].roomImages # << >>
        /\ trim(batches[b].stylePrompt) # << >>
        /\ AllFulfilled(b) =>
              /\ batches[b].all.state = "fulfilled"
              /\ Latest(b) =>
                    /\ Len(results) = Len(batches[b].roomImages)
                    /\ \A i \in 1..Len(results) : ComputedFrom(results[i], batches[b], i)

\* Two results committed, for two different room images.
C2_Witness ==
    /\ Len(results) = 2
    /\ results[1] # results[2]

\* The encoded bytes of the original input image.
OriginalImageData(file) == << Base64(file.bytes) >>

\* C3: enhancement fallback value. Whenever enhanceImage has returned by
\* way of its fallback (the enhancement call threw or returned no image
\* part), the before-image the chain holds is exactly the encoded bytes of
\* the original room image.
C3_FallbackIsOriginal ==
    \A b \in Batches : \A i \in Chains(b) :
        batches[b].chains[i].fellBack =>
            batches[b].chains[i].enhancedBeforeImage
                = Some(OriginalImageData(batches[b].roomImages[i]))

\* The response has a part that carries inline data.
HasImagePart(outcome) ==
    /\ ~outcome.threw
    /\ FirstCandidateParts(outcome) # None
    /\ \E j \in 1..Len(FirstCandidateParts(outcome)[1]) :
          FirstCandidateParts(outcome)[1][j].inlineData # None

\* C4: design-generation failure policy. For every way the design call of a
\* chain can settle: a thrown error is re-raised as a new Error wrapping it;
\* a response without an image part fails with an Error whose message the
\* App shows; a value is returned only when the response has an image part,
\* and it is the data of the first such part, never the input image.
C4_DesignFailurePolicy ==
    \A b \in Batches : \A i \in Chains(b) :
        batches[b].chains[i].pc = "genCall" =>
            \A outcome \in CallOutcomes(DesignRequest(batches[b].roomImages[i],
                                batches[b].decorImages, batches[b].stylePrompt)) :
                LET idea == generateDecorIdeas(batches[b].roomImages[i],
                                batches[b].decorImages, batches[b].stylePrompt, outcome)
                IN  /\ outcome.threw =>
                          /\ idea.status = "rejected"
                          /\ idea.reason[1].isError
                          /\ idea.reason[1].message =
                                IF outcome.thrown[1].isError
                                THEN FailedPrefix \o outcome.thrown[1].message
                                ELSE UnknownDesignMessage
                    /\ (~outcome.threw /\ ~HasImagePart(outcome)) =>
                          /\ idea.status = "rejected"
                          /\ idea.reason[1].isError
                          /\ idea.reason[1].message \in
                                { FailedPrefix \o NoImageMessage, FailedPrefix \o TypeErrorMessage }
                          /\ FirstCandidateParts(outcome) # None =>
                                idea.reason[1].message = FailedPrefix \o NoImageMessage
                    /\ idea.status = "fulfilled" =>
                          /\ HasImagePart(outcome)
                          /\ idea.value[1] = FirstInlineData(FirstCandidateParts(outcome)[1])
                          /\ idea.value[1] # PartOf(batches[b].roomImages[i]).inlineData[1].data

\* A batch has failed with the "no image" error of generateDecorIdeas.
C4_Witness ==
    /\ batches # << >>
    /\ batches[Len(batches)].all.state = "rejected"
    /\ error = Some(FailedPrefix \o NoImageMessage)

\* C5: empty input is rejected up front. A handleGenerate step taken with an
\* empty room image list sets the validation error, starts no batch, issues
\* no call and does not enter the loading state.
C5_EmptyInputRejected ==
    [][ (handleGenerate /\ Len(roomImages) = 0) =>
            /\ error' = Some(NoRoomImagesMessage)
            /\ ~isLoading'
            /\ batches' = batches
            /\ calls' = calls
            /\ results' = results ]_vars

\* handleGenerate has been called with an empty room image list.
C5_Witness ==
    /\ roomImages = << >>
    /\ error = Some(NoRoomImagesMessage)

\* C6: blank prompt is rejected. A handleGenerate step taken with a
\* non-empty room image list and a prompt that is empty or only whitespace
\* sets the validation error, starts no batch, issues no call and does not
\* enter the loading state.
C6_BlankPromptRejected ==
    [][ (handleGenerate /\ Len(roomImages) > 0
            /\ \A k \in 1..Len(stylePrompt) : IsBlank(stylePrompt[k])) =>
            /\ error' = Some(NoPromptMessage)
            /\ ~isLoading'
            /\ batches' = batches
            /\ calls' = calls
            /\ results' = results ]_vars

\* handleGenerate has been called with room images and a whitespace-only
\* prompt.
C6_Witness ==
    /\ roomImages # << >>
    /\ stylePrompt = <<" ", " ">>
    /\ error = Some(NoPromptMessage)

\* C7: enhancement never aborts the pipeline. However the enhancement call
\* of a chain settles, enhanceImage returns a value; a chain is rejected
\* only after its design call was issued; a batch is rejected only if one of
\* its chains is; and a batch all of whose chains succeeded is fulfilled.
C7_EnhancementNeverAborts ==
    \A b \in Batches :
        /\ \A i \in Chains(b) :
              /\ batches[b].chains[i].pc = "enhCall" =>
                    \A outcome \in CallOutcomes(EnhanceRequest(batches[b].roomImages[i])) :
                        enhanceImage(batches[b].roomImages[i], outcome).status = "fulfilled"
              /\ batches[b].chains[i].pc = "rejected" => DesignCalled(b, i)
        /\ batches[b].all.state = "rejected" => SomeRejected(b)
        /\ AllFulfilled(b) => batches[b].all.state = "fulfilled"
        /\ (AllFulfilled(b) /\ Latest(b)) => (results # << >> /\ ~isLoading)

\* Results are committed although the enhancement of an unreadable room
\* image fell back.
C7_Witness ==
    /\ batches # << >>
    /\ results # << >>
    /\ \E i \in 1..Len(results) :
          /\ ~batches[Len(batches)].roomImages[i].readable
          /\ results[i].enhancedBeforeImage = << >>

\* C8: result shape. Every committed Result gives its result card a defined
\* before-image, a defined after-image (the image bytes the design call
\* returned) and a description string.
C8_ResultShape ==
    \A k \in 1..Len(results) :
        /\ ResultCardProps(results[k]).beforeImage # None
        /\ ResultCardProps(results[k]).afterImage = Some(results[k].idea)
        /\ ResultCardProps(results[k]).description # None

\* C9: call accounting. Each chain has issued exactly one enhancement call
\* once past its first file read and exactly one design call once past the
\* file reads of generateDecorIdeas (so n of each when all n chains have
\* settled); each call carries its own room image, and each design call the
\* decor images and the style prompt of the batch's start; there are no
\* other calls.
C9_CallAccounting ==
    /\ \A b \in Batches : \A i \in Chains(b) :
          /\ CopiesIn(Call("enhance", b, i, EnhanceRequest(batches[b].roomImages[i])), calls)
                = IF batches[b].chains[i].pc = "enhRead" THEN 0 ELSE 1
          /\ CopiesIn(Call("design", b, i,
                           DesignRequest(batches[b].roomImages[i], batches[b].decorImages,
                                         batches[b].stylePrompt)), calls)
                = IF batches[b].chains[i].pc \in {"enhRead", "enhCall", "genRead"} THEN 0 ELSE 1
    /\ \A c \in BagToSet(calls) :
          /\ c.batch \in Batches
          /\ c.index \in Chains(c.batch)
          /\ c.parts = IF c.op = "enhance"
                       THEN EnhanceRequest(batches[c.batch].roomImages[c.index])
                       ELSE DesignRequest(batches[c.batch].roomImages[c.index],
                                          batches[c.batch].decorImages,
                                          batches[c.batch].stylePrompt)

\* A batch over two room images with decor images has settled entirely,
\* after the decor images and the prompt were changed on the page.
C9_Witness ==
    \E b \in Batches :
        /\ Len(batches[b].chains) = 2
        /\ \A i \in Chains(b) : batches[b].chains[i].pc \in {"fulfilled", "rejected"}
        /\ batches[b].decorImages # << >>
        /\ batches[b].decorImages # decorImages
        /\ batches[b].stylePrompt # stylePrompt
        /\ BagCardinality(calls) >= 4

\* C10: single narration, process-wide. At most one utterance is being
\* spoken or queued in the speech synthesizer.
C10_SingleNarration ==
    Len(queue) <= 1

\* The synthesizer is speaking an utterance the card started.
Narrating(card) ==
    /\ queue # << >>
    /\ queue[1].begun
    /\ queue[1].card = card

\* C11: toggle semantics. A togglePlay of a card while the synthesizer holds
\* no utterance (narration is inactive) submits a new utterance of that card;
\* a togglePlay of a card whose utterance is being spoken (its narration is
\* active) cancels it and leaves the card's isPlaying false.
C11_ToggleSemantics ==
    [][ \A card \in Cards :
            togglePlay(card) =>
                /\ queue = << >> =>
                      queue' = << Utterance(uttered + 1, card) >>
                /\ Narrating(card) => (queue' = << >> /\ ~isPlaying'[card]) ]_vars

\* C12: no leftover end signal. The end or error event of an utterance that
\* was being spoken when speak cancelled it is never delivered while a later
\* utterance is being spoken, and its delivery never resets the isPlaying
\* flag of the card whose utterance is being spoken.
C12_NoLeftoverEnd ==
    [][ \A signal \in signals \ signals' :
            (signal.from = "speak" /\ signal.begun) =>
                /\ ~(queue # << >> /\ queue[1].begun /\ queue[1].id > signal.id)
                /\ \A card \in Cards :
                      (Narrating(card) /\ isPlaying[card]) => isPlaying'[card] ]_vars

\* C13: teardown cancels narration. The synthesizer holds no utterance,
\* spoken or waiting, of a card that is no longer displayed.
C13_TeardownCancels ==
    \A k \in 1..Len(queue) : mounted[queue[k].card]

\* The files of a selection that meet both constraints of the file selection
\* boundary, in selection order.
RECURSIVE WithinBoundary(_)
WithinBoundary(files) ==
    IF files = << >> THEN << >>
    ELSE (IF /\ Head(files).type \in { "image/jpeg", "image/png", "image/webp" }
             /\ Head(files).size <= 4194304
          THEN << Head(files) >> ELSE << >>) \o WithinBoundary(Tail(files))

\* C14: accepted-image invariant. Before and after every step each file of
\* the decor image list has an accepted mime type and a size of at most
\* 4 MiB; a file selection appends exactly its files that meet both
\* constraints, in selection order, after the existing entries, and raises
\* no error; a removal takes out one entry and keeps the order of the rest.
C14_AcceptedImages ==
    [][ /\ WithinBoundary(decorImages) = decorImages
        /\ WithinBoundary(decorImages') = decorImages'
        /\ \A files \in Selections :
              handleFileChange(files) =>
                  /\ decorImages' = decorImages \o WithinBoundary(files)
                  /\ error' = error
        /\ \A index \in 1..MaxDecorImages :
              handleRemoveImage(index) =>
                  /\ Len(decorImages') = Len(decorImages) - 1
                  /\ \A k \in 1..Len(decorImages') :
                        decorImages'[k] = decorImages[IF k < index THEN k ELSE k + 1] ]_vars

\* The list holds a file of exactly 4 MiB appended after an earlier entry,
\* and no error is shown.
C14_Witness ==
    /\ Len(decorImages) >= 2
    /\ decorImages[Len(decorImages)] = FileMax
    /\ decorImages[1] # FileMax
    /\ error = None

\* A fraction equals the quotient n / d.
IsQuotient(x, n, d) == x.num * d = n * x.den

\* C15: compositor dimensions. Every composed canvas has the height
\* max(before.height, after.height) and a width equal to the sum of the two
\* widths scaled to that height, before.width * height / before.height and
\* after.width * height / after.height; the before image is drawn at
\* x-offset 0 and the after image at the scaled before width.
C15_CompositorDimensions ==
    \A k \in 1..Len(compositions) :
        compositions[k].promise.status = "fulfilled" =>
            LET canvas == compositions[k].promise.value[1]
                b == Decode(beforeImage)[1]
                a == Decode(afterImage)[1]
                h == IF b.height >= a.height THEN b.height ELSE a.height
            IN  /\ canvas.height = h
                /\ IsQuotient(Whole(canvas.width),
                              b.width * h * a.height + a.width * h * b.height,
                              b.height * a.height)
                /\ IsQuotient(canvas.drawBefore.x, 0, 1)
                /\ IsQuotient(canvas.drawBefore.width, b.width * h, b.height)
                /\ IsQuotient(canvas.drawAfter.x, b.width * h, b.height)
                /\ IsQuotient(canvas.drawAfter.width, a.width * h, a.height)

\* C16: compositor failure. The promise of a createComparisonImage call,
\* once settled, never changes; it is fulfilled only when both images have
\* loaded, it is rejected as soon as either image has failed to decode, and
\* it is settled once both images have signalled. The step that rejects it
\* saves no file, lets no error leave the handler and leaves the dropdown
\* closed.
C16_CompositorFailure ==
    [][ \A k \in 1..Len(compositions) :
            LET old == compositions[k]
                new == compositions'[k]
            IN  /\ old.promise.status # "pending" => new.promise = old.promise
                /\ new.promise.status = "fulfilled" =>
                      (new.before.state = "loaded" /\ new.after.state = "loaded")
                /\ (new.before.state = "failed" \/ new.after.state = "failed") =>
                      new.promise.status = "rejected"
                /\ (new.before.state # "loading" /\ new.after.state # "loading") =>
                      new.promise.status # "pending"
                /\ (old.promise.status = "pending" /\ new.promise.status = "rejected") =>
                      /\ downloads' = downloads
                      /\ uncaught' = uncaught
                      /\ ~isDropdownOpen' ]_vars

\* A comparison was asked for from the open dropdown, one image loaded and
\* the other failed to decode: the promise is rejected, nothing was saved
\* and the dropdown is closed.
C16_Witness ==
    \E k \in 1..Len(compositions) :
        /\ compositions[k].promise.status = "rejected"
        /\ compositions[k].before.state = "loaded"
        /\ compositions[k].after.state = "failed"
        /\ downloads = << >>
        /\ ~isDropdownOpen
        /\ uncaught = 0

\* The inline image payloads of the parts of a request.
Payloads(parts) ==
    { parts[j].inlineData[1].data : j \in { m \in 1..Len(parts) : parts[m].inlineData # None } }

\* C17: encode error. Once the room image of a chain has been encoded,
\* fileToGenerativePart has failed if the file could not be read and has
\* otherwise completed with a non-empty payload; and no call issued to the
\* service carries an empty image payload.
C17_EncodeError ==
    /\ \A b \in Batches : \A i \in Chains(b) :
          batches[b].chains[i].pc # "enhRead" =>
              LET file == batches[b].roomImages[i]
                  part == fileToGenerativePart(file)
              IN  /\ ~file.readable => part.status = "rejected"
                  /\ part.status = "fulfilled" => part.value[1].inlineData[1].data # << >>
    /\ \A c \in BagToSet(calls) : << >> \notin Payloads(c.parts)

\* The enhancement call of the chain is in flight.
Enhancing(b, i) == batches[b].chains[i].pc = "enhCall"

\* Every chain that is due to issue a call can issue it whatever the state
\* of the other chains.
NoOrderingBetweenChains ==
    \A b \in Batches : \A i \in Chains(b) :
        /\ batches[b].chains[i].pc = "enhRead" => ENABLED EnhanceCallIssued(b, i)
        /\ batches[b].chains[i].pc = "genRead" => ENABLED DesignCallIssued(b, i)

\* C18 as claimed: per-room concurrency. While the enhancement call of a room
\* image is in flight its design call can be issued (it does not wait for the
\* enhancement to settle), and the chains of different room images have no
\* ordering dependency.
C18_PerRoomConcurrency ==
    /\ \A b \in Batches : \A i \in Chains(b) :
          Enhancing(b, i) => (DesignCalled(b, i) \/ ENABLED DesignCallIssued(b, i))
    /\ NoOrderingBetweenChains

\* C18 as amended: the chains of different room images run concurrently with
\* no ordering dependency between them, and within one chain the design call
\* is issued only after that image's enhancement call has settled.
C18_ChainsConcurrentStepsInOrder ==
    /\ NoOrderingBetweenChains
    /\ \A b \in Batches : \A i \in Chains(b) :
          /\ Enhancing(b, i) => (~DesignCalled(b, i) /\ ~ENABLED DesignCallIssued(b, i))
          /\ DesignCalled(b, i) =>
                batches[b].chains[i].pc \in {"genCall", "fulfilled", "rejected"}

\* Of two room images the second has its design call in flight while the
\* enhancement call of the first is still in flight.
C18_Witness ==
    \E b \in Batches :
        /\ Len(batches[b].chains) = 2
        /\ batches[b].chains[1].pc = "enhCall"
        /\ batches[b].chains[2].pc = "genCall"

\* The chain has settled.
Settled(b, i) == batches[b].chains[i].pc \in {"fulfilled", "rejected"}

\* C19 as claimed: join waits for all chains. While a chain of the latest
\* batch has not settled, the batch has not finished: Promise.all is pending,
\* loading is not cleared and no error is shown.
C19_JoinWaitsForAll ==
    \A b \in Batches :
        (\E i \in Chains(b) : ~Settled(b, i)) =>
            /\ batches[b].all.state = "pending"
            /\ Latest(b) => (isLoading /\ error = None)

\* C19 as amended: the join waits for all chains to succeed or for the first
\* failure. A batch is unfinished exactly while none of its chains has failed
\* and not all have succeeded; the latest batch is loading, with no error and
\* no results, exactly while it is unfinished, so loading is cleared and the
\* error shown at the first failure, also with other chains in flight.
C19_JoinWaitsForAllOrFirstFailure ==
    \A b \in Batches :
        /\ batches[b].all.state = "pending" <=> (~SomeRejected(b) /\ ~AllFulfilled(b))
        /\ batches[b].all.state = "rejected" <=> SomeRejected(b)
        /\ Latest(b) =>
              /\ isLoading <=> batches[b].all.state = "pending"
              /\ isLoading => (error = None /\ results = << >>)
              /\ batches[b].all.state = "rejected" => (error # None /\ results = << >>)

\* One chain of two has failed and the batch has finished with an error
\* while the other chain's enhancement call is still in flight.
C19_Witness ==
    \E b \in Batches :
        /\ Latest(b)
        /\ Len(batches[b].chains) = 2
        /\ batches[b].chains[1].pc = "rejected"
        /\ batches[b].chains[2].pc = "enhCall"
        /\ ~isLoading
        /\ error # None

\* The messages a failing design call of the chain can fail with.
FailureMessages(b, i) ==
    { ErrorText(idea.reason[1]) :
        idea \in { x \in { generateDecorIdeas(batches[b].roomImages[i], batches[b].decorImages,
                                              batches[b].stylePrompt, outcome) :
                             outcome \in CallOutcomes(DesignRequest(batches[b].roomImages[i],
                                             batches[b].decorImages, batches[b].stylePrompt)) } :
                       x.status = "rejected" } }

\* Chain i of batch b fails in this step.
Fails(b, i) ==
    /\ batches[b].chains[i].pc = "genCall"
    /\ batches'[b].chains[i].pc = "rejected"

\* C20: first error wins. The first design call of a batch to fail finishes
\* the batch with its message as the error; a design call of the batch that
\* fails later changes neither the error nor the results nor the loading
\* state.
C20_FirstErrorWins ==
    [][ \A b \in Batches : \A i \in Chains(b) :
            Fails(b, i) =>
                IF SomeRejected(b)
                THEN error' = error /\ results' = results /\ isLoading' = isLoading
                ELSE /\ error' # None
                     /\ error'[1] \in FailureMessages(b, i)
                     /\ results' = << >>
                     /\ ~isLoading' ]_vars

\* Both design calls of a batch over two room images have failed.
C20_Witness ==
    \E b \in Batches :
        /\ Len(batches[b].chains) = 2
        /\ \A i \in Chains(b) : batches[b].chains[i].pc = "rejected"
        /\ error # None
        /\ ~isLoading

\* C21: after any sequence of decor image additions and removals every live
\* object URL is a preview of the current image list, so that there are
\* never more live URLs than images in the list, and once the manager has
\* left the page no object URL is live.
C21_PreviewsReleased ==
    /\ objectUrls \subseteq Range(previews)
    /\ Cardinality(objectUrls) <= Len(decorImages)
    /\ managerMounted => Cardinality(objectUrls) = Len(decorImages)
    /\ ~managerMounted => objectUrls = {}

\* The manager has left the page after images had been added: the previews
\* of its last list are no longer live.
C21_Witness ==
    /\ ~managerMounted
    /\ Len(decorImages) >= 2
    /\ Len(previews) = Len(decorImages)
    /\ objectUrls = {}

\* C22: loading-state lifecycle. While a batch is loading the result list is
\* empty and the error is null; the step that clears the loading state
\* leaves exactly one of "results non-empty" and "error set"; and, every
\* file read and every call settling, a loading state is eventually cleared.
\* (What holds after the clearing is what holds when the batch ends: a later
\* press of the button is another run of the handler.)
C22_LoadingLifecycle ==
    /\ [](isLoading => results = << >> /\ error = None)
    /\ [][(isLoading /\ ~isLoading') => ((results' # << >>) # (error' # None))]_vars
    /\ (isLoading ~> ~isLoading)

\* The second batch of a page has cleared its loading state with results.
C22_Witness ==
    /\ Len(batches) = 2
    /\ ~isLoading
    /\ batches[2].all.state = "fulfilled"
    /\ results # << >>
    /\ error = None

\* A step of chain i of batch b.
ChainMoves(b, i) ==
    /\ b <= Len(batches')
    /\ batches'[b].chains[i] # batches[b].chains[i]

\* C23: stale chains are inert. Once Promise.all of a batch has rejected, no
\* step of a chain of that batch that was still in flight changes the result
\* list, the error or the loading state, whether or not a new batch has
\* been started meanwhile; and a step that changes any of the three without
\* starting a batch is a step of a chain of the latest batch, taken while
\* that batch is loading.
C23_StaleChainsInert ==
    [][/\ \A b \in Batches : \A i \in Chains(b) :
             (batches[b].all.state = "rejected" /\ ~Settled(b, i) /\ ChainMoves(b, i))
                 => UNCHANGED << results, error, isLoading >>
       /\ (<< results, error, isLoading >>' # << results, error, isLoading >>
              /\ Len(batches') = Len(batches))
             => /\ isLoading
                /\ batches[Len(batches)].all.state = "pending"
                /\ \E i \in Chains(Len(batches)) : ChainMoves(Len(batches), i)
                /\ \A b \in Batches : \A i \in Chains(b) :
                       ChainMoves(b, i) => Latest(b)]_vars

\* A second batch has ended with results after every chain of the failed
\* first batch had settled, the one that was in flight included.
C23_Witness ==
    /\ Len(batches) = 2
    /\ batches[1].all.state = "rejected"
    /\ \A i \in Chains(1) : batches[1].chains[i].pc = "rejected"
    /\ batches[2].all.state = "fulfilled"
    /\ ~isLoading
    /\ results # << >>
    /\ error = None

\* C24: the active flag matches the synthesizer. Once every pending end or
\* error event of a cancelled utterance has been delivered, at most one
\* card has isPlaying = TRUE, and a card has isPlaying = TRUE only if the
\* utterance being spoken is one it started. A step that ends a card's
\* narration, such as another card starting its own, clears the card's flag
\* or leaves an event pending for it, so the flag is FALSE by then.
C24_ActiveFlagMatches ==
    /\ [](signals = {} =>
            /\ \A card \in Cards : isPlaying[card] => Narrating(card)
            /\ \A a \in Cards : \A b \in Cards : (isPlaying[a] /\ isPlaying[b]) => a = b)
    /\ [][\A card \in Cards :
            (Narrating(card) /\ ~Narrating(card)')
                => (~isPlaying'[card] \/ \E signal \in signals' : signal.card = card)]_vars

\* The second utterance, started by card 2, is being spoken, the events of
\* the first utterance, started by card 1, have been delivered, and only
\* card 2 has its flag set.
C24_Witness ==
    /\ signals = {}
    /\ uttered = 2
    /\ queue = << [id |-> 2, card |-> 2, begun |-> TRUE] >>
    /\ isPlaying[2]
    /\ ~isPlaying[1]
    /\ mounted[1]

====
